---------------------------- MODULE Spec2Model ----------------------------
(***************************************************************************)
(* Beanstalk-Py bots: the supervised poller (Monitor), the peg-cross,      *)
(* sunrise, pool and Beanstalk monitors built on it, the event classifiers *)
(* and formatting utilities (src/python/bots/util.py), and the Discord     *)
(* message queue (src/python/bots/discord_bot.py).                         *)
(*                                                                         *)
(* Time is discrete; one tick is half a second, the shortest sleep of the  *)
(* code (time.sleep(0.5)).  A deadline t = time.time() + d is kept as the  *)
(* time left until it, which the Tick action counts down, so that          *)
(* "time.time() < t" reads "left > 0".  time.sleep(d) returns after at     *)
(* least d: a sleeper may run any time after its countdown reached 0.      *)
(***************************************************************************)
EXTENDS Integers, Sequences, FiniteSets, TLC

VARIABLES
    kind,           \* which Monitor subclass this instance is
    prod,           \* Monitor.prod
    dry_run,        \* Monitor._dry_run
    pcMain,         \* the owning bot: before start(), running, in stop()'s join, after stop()
    pc,             \* the thread _thread_wrapper: position in the wrapper or in the body
    thread_active,  \* Monitor._thread_active
    retry_left,     \* ticks left until retry_time (_thread_wrapper_method)
    sleep_left,     \* ticks left of the time.sleep() the thread is in
    join_waited,    \* ticks stop() has spent in its join so far
    msgs,           \* every text handed to message_function, in call order
    slept,          \* ticks of sleep requested since _thread_active was last read
    outcome,        \* _monitor_method: not yet invoked, running, how its last invocation ended
    idle,           \* ticks since the last invocation of _monitor_method ended, up to the reset delay
    history,        \* how the invocations of _monitor_method on record ended, in order
    \* PegCrossMonitor
    source,            \* the bean graph's cross records, oldest first; a record's id is its index
    last_known_cross,  \* PegCrossMonitor.last_known_cross (id 0: None)
    min_update_left,   \* ticks left until min_update_time (_monitor_method)
    last_cross,        \* _check_for_peg_crosses: the record last_cross() returned
    cross_types,       \* the list _check_for_peg_crosses returned, not yet rendered part
    detected,          \* every cross _check_for_peg_crosses has classified, in order
    last_check,        \* what the last _check_for_peg_crosses fetched, requested and returned
    first_fetched,     \* the id of the record that initialized last_known_cross (0: none yet)
    \* SunriseMonitor
    season,            \* the beanstalk graph's current season: its id and start timestamp
    current_season_id, \* SunriseMonitor.current_season_id (0: None)
    sunrise_left,      \* ticks left until sunrise_ready_timestamp
    stats,             \* the id of the season stats _block_and_get_seasons_stats returned (0: None)
    last_poll,         \* what the last seasons_stats() poll saw and the clock it was judged at
    \* DiscordClient
    lists,          \* the list objects made so far, by identity
    msg_queue,      \* DiscordClient.msg_queue: the identity of the list it is bound to
    appended,       \* entries the monitor threads have appended so far
    ref,            \* per monitor thread: the list its send_msg_* call loaded (0: not in a call)
    pcDrain,        \* send_queued_messages: position in the for loop
    it_list,        \* the list the for loop iterates
    it_index,       \* the for loop's index into it
    entry,          \* the entry the loop body holds
    sliced,         \* the list self.msg_queue[1:] made, not yet stored
    sent,           \* every entry sent to a channel, in order
    removed,        \* every entry a rebinding of msg_queue has dropped from the queue
    \* PoolMonitor and BeanstalkMonitor
    check_left,     \* ticks left until last_check_time + the check rate (_monitor_method)
    batch,          \* the transactions of get_new_logs() the for loop has yet to handle
    fetched,        \* of the chain's MaxLogs event logs, those that are new to get_new_logs() no more
    group,          \* the transaction _handle_txn_logs was last called with
    rendered,       \* the strings the classifiers returned in that call, in order
    pushed,         \* the texts that call handed to message_function, in order
    handled,        \* how that call ended: it returned, raised, or an external call of it raised
    \* the formatting utilities
    call,           \* the function called and its arguments
    result          \* what it returned (NoResult: not yet called)

cfgVars == <<kind, prod, dry_run>>

pegVars == <<source, last_known_cross, min_update_left, last_cross, cross_types, detected,
             last_check, first_fetched>>

sunVars == <<season, current_season_id, sunrise_left, stats, last_poll>>

queueVars == <<lists, msg_queue, appended, ref, pcDrain, it_list, it_index, entry, sliced,
               sent, removed>>

pollVars == <<idle, history>>

monitorVars == <<cfgVars, pollVars, pcMain, pc, thread_active, retry_left, sleep_left, join_waited,
                 msgs, slept, outcome, pegVars, sunVars>>

txnLogVars == <<batch, fetched, group, rendered, pushed, handled>>

txnVars == <<check_left, txnLogVars>>

pureVars == <<call, result>>

vars == <<monitorVars, queueVars, txnVars, pureVars>>

-----------------------------------------------------------------------------
(* Program constants, in seconds as the source states them. *)

TicksPerSecond == 2
MONITOR_RESET_DELAY == 5
PEG_UPDATE_PERIOD == 10
SUNRISE_CHECK_PERIOD == 10
SEASON_DURATION == 3600
POOL_CHECK_RATE == 10
BEANSTALK_CHECK_RATE == 10

(* Bounds of the model. *)
MaxCrosses == 4
MaxSeasons == 3
MaxEntries == 3
MaxLogs == 3
MaxValue == 260000
MaxNegative == 3
MaxAmount == 7
Precision == 4
MaxInvocations == 4
MaxBoundaries == 2

Ticks(seconds) == seconds * TicksPerSecond
HalfSecond == 1

\* Monitor.__init__'s query_rate, as each subclass passes it.
QueryRate(k) ==
    CASE k = "peg" -> PEG_UPDATE_PERIOD
      [] k = "sunrise" -> SUNRISE_CHECK_PERIOD
      [] k = "pool" -> POOL_CHECK_RATE
      [] k = "beanstalk" -> BEANSTALK_CHECK_RATE
      [] OTHER -> PEG_UPDATE_PERIOD

\* n less d, not below 0.
Less(n, d) == IF n > d THEN n - d ELSE 0

Msg(type, id) == [type |-> type, id |-> id]

CountOf(type) == Cardinality({i \in DOMAIN msgs : msgs[i].type = type})

-----------------------------------------------------------------------------
(* Monitor.start and Monitor.stop *)

\* start() without the production test: a notification in every mode.
StartMessagesInProduction ==
    IF dry_run THEN <<Msg("started_simulated", 0)>> ELSE <<Msg("started", 0)>>

\* The notification start() emits: none in production, unless a dry run.
StartMessages ==
    IF dry_run THEN <<Msg("started_simulated", 0)>>
    ELSE IF ~prod THEN <<Msg("started", 0)>>
    ELSE <<>>

\* The first position of the thread: the wrapper's while test, retry_time = 0.
Start ==
    /\ pcMain = "init"
    /\ msgs' = msgs \o StartMessages
    /\ thread_active' = TRUE
    /\ pc' = "w_check"
    /\ retry_left' = 0
    /\ pcMain' = "started"
    /\ UNCHANGED <<cfgVars, pollVars, queueVars, txnVars, pureVars, pegVars, sunVars, sleep_left, join_waited, slept, outcome>>

\* join(3 * self.query_rate)
JoinTimeout == 3 * Ticks(QueryRate(kind))

Stop ==
    /\ pcMain = "started"
    /\ thread_active' = FALSE
    /\ join_waited' = 0
    /\ pcMain' = "joining"
    /\ UNCHANGED <<cfgVars, pollVars, queueVars, txnVars, pureVars, pegVars, sunVars, pc, retry_left, sleep_left, msgs, slept,
                   outcome>>

\* stop() with start()'s production test: silent in production.
StopMessagesSilentInProduction == IF prod THEN <<>> ELSE <<Msg("stopped", 0)>>

\* What stop() emits once the join returned.
StopMessages == <<Msg("stopped", 0)>>

\* The join returns when the thread has ended or the timeout has run out.
JoinReturn ==
    /\ pcMain = "joining"
    /\ pc = "done" \/ join_waited >= JoinTimeout
    /\ msgs' = msgs \o StopMessages
    /\ pcMain' = "stopped"
    /\ UNCHANGED <<cfgVars, pollVars, queueVars, txnVars, pureVars, pegVars, sunVars, pc, thread_active, retry_left, sleep_left,
                   join_waited, slept, outcome>>

-----------------------------------------------------------------------------
(* Monitor._thread_wrapper_method *)

\* The first position of each subclass's _monitor_method.
BodyEntry(k) ==
    CASE k = "peg" -> "peg_begin"
      [] k = "sunrise" -> "sun_loop"
      [] k \in {"pool", "beanstalk"} -> "txn_loop"
      [] OTHER -> "body"

\* while self._thread_active: false ends the thread.
WrapperExit ==
    /\ pc = "w_check"
    /\ ~thread_active
    /\ pc' = "done"
    /\ slept' = 0
    /\ UNCHANGED <<cfgVars, pollVars, queueVars, txnVars, pureVars, pegVars, sunVars, pcMain, thread_active, retry_left, sleep_left,
                   join_waited, msgs, outcome>>

\* if time.time() < retry_time: time.sleep(0.5); continue
WrapperSleep ==
    /\ pc = "w_check"
    /\ thread_active
    /\ retry_left > 0
    /\ pc' = "w_sleep"
    /\ sleep_left' = HalfSecond
    /\ slept' = HalfSecond
    /\ UNCHANGED <<cfgVars, pollVars, queueVars, txnVars, pureVars, pegVars, sunVars, pcMain, thread_active, retry_left, join_waited,
                   msgs, outcome>>

WrapperWake ==
    /\ pc = "w_sleep"
    /\ sleep_left = 0
    /\ pc' = "w_check"
    /\ UNCHANGED <<cfgVars, pollVars, queueVars, txnVars, pureVars, pegVars, sunVars, pcMain, thread_active, retry_left, sleep_left,
                   join_waited, msgs, slept, outcome>>

\* try: self._monitor_method()
WrapperInvoke ==
    /\ pc = "w_check"
    /\ thread_active
    /\ retry_left = 0
    /\ pc' = BodyEntry(kind)
    /\ slept' = 0
    /\ outcome' = IF outcome = "raised" THEN "retrying" ELSE "running"
    /\ UNCHANGED <<cfgVars, pollVars, queueVars, txnVars, pureVars, pegVars, sunVars, pcMain, thread_active, retry_left, sleep_left,
                   join_waited, msgs>>

\* The body's end without the assignment of retry_time.
BodyEndsNoDelay(how) ==
    /\ outcome' = how
    /\ pc' = "w_check"
    /\ retry_left' = retry_left

\* No except clause: the exception ends the thread.
AfterRaiseUncaught == "done"

\* except Exception: logged, the loop goes on.
AfterRaise == "w_check"

\* The body returned (how = "returned") or raised (how = "raised"):
\* retry_time = time.time() + MONITOR_RESET_DELAY, back to the while test.
BodyEnds(how) ==
    /\ outcome' = how
    /\ pc' = IF how = "raised" THEN AfterRaise ELSE "w_check"
    /\ retry_left' = IF pc' = "w_check" THEN Ticks(MONITOR_RESET_DELAY) ELSE retry_left

-----------------------------------------------------------------------------
(* The abstract _monitor_method: any body, returning or raising. *)

\* The body ends: time starts to count towards the next invocation.
GenericEnds(how, recorded) ==
    /\ pc = "body"
    /\ kind = "generic"
    /\ BodyEnds(how)
    /\ idle' = 0
    /\ history' = recorded
    /\ UNCHANGED <<cfgVars, queueVars, txnVars, pureVars, pegVars, sunVars, pcMain, thread_active, sleep_left, join_waited,
                   msgs, slept>>

GenericReturn == GenericEnds("returned", history)

GenericRaise == GenericEnds("raised", history)

\* The same body with its invocations on record, MaxInvocations of them.
RecordedReturn ==
    /\ Len(history) < MaxInvocations
    /\ GenericEnds("returned", Append(history, "returned"))

RecordedRaise ==
    /\ Len(history) < MaxInvocations
    /\ GenericEnds("raised", Append(history, "raised"))

-----------------------------------------------------------------------------
(* PegCrossMonitor *)

None == [id |-> 0, timestamp |-> 0, above |-> FALSE]

NO_CROSS == [id |-> 0, type |-> "NO_CROSS"]

NoCheck == [last_cross |-> None, known |-> None, n |-> 0, returned |-> 0]

CrossAt(src, i) == [id |-> i, timestamp |-> src[i].timestamp, above |-> src[i].above]

\* bean_graph_client.last_cross(): the newest record of the graph.
LastCross(src) == CrossAt(src, Len(src))

\* bean_graph_client.get_last_crosses(n): the last n records, oldest first.
GetLastCrosses(src, n) ==
    LET m == IF n < Len(src) THEN n ELSE Len(src)
    IN  [i \in 1..m |-> CrossAt(src, Len(src) - m + i)]

\* if cross['above']: CROSS_ABOVE, else CROSS_BELOW
Classify(cross) ==
    [id |-> cross.id, type |-> IF cross.above THEN "CROSS_ABOVE" ELSE "CROSS_BELOW"]

\* The comparison without its equality: a record of the cursor's own timestamp
\* counts as newer.
NotNewerStrictlyOlder(latest, known) == latest.timestamp < known.timestamp

\* The comparison made on the ids instead of the timestamps.
NotNewerById(latest, known) == latest.id <= known.id

\* if last_cross[TIMESTAMP_KEY] <= self.last_known_cross[TIMESTAMP_KEY]
NotNewer(latest, known) == latest.timestamp <= known.timestamp

\* number_of_new_crosses = int(last_cross['id']) - int(self.last_known_cross['id'])
NumberOfNewCrosses(latest, known) == latest.id - known.id

\* One record too few asked of get_last_crosses.
RequestedOneLess(number_of_new_crosses) ==
    IF number_of_new_crosses > 1 THEN number_of_new_crosses - 1 ELSE 0

\* How many records _check_for_peg_crosses asks get_last_crosses for (0: no call).
Requested(number_of_new_crosses) ==
    IF number_of_new_crosses > 1 THEN number_of_new_crosses ELSE 0

\* new_cross_list
NewCrossList(src, latest, number_of_new_crosses) ==
    IF Requested(number_of_new_crosses) > 0
    THEN GetLastCrosses(src, Requested(number_of_new_crosses))
    ELSE <<latest>>

\* cross_types: the classification of each record of new_cross_list, in its order.
CrossTypes(new_cross_list) ==
    [i \in DOMAIN new_cross_list |-> Classify(new_cross_list[i])]

Crosses(types) == SelectSeq(types, LAMBDA t : t # NO_CROSS)

\* PegCrossMonitor.peg_cross_string
PegCrossString(cross_type) ==
    IF cross_type.type = "CROSS_ABOVE" THEN Msg("crossed_above", cross_type.id)
    ELSE IF cross_type.type = "CROSS_BELOW" THEN Msg("crossed_below", cross_type.id)
    ELSE Msg("not_crossed", cross_type.id)

\* min_update_time = time.time() + 1
PegBegin ==
    /\ pc = "peg_begin"
    /\ min_update_left' = Ticks(1)
    /\ pc' = "peg_loop"
    /\ UNCHANGED <<cfgVars, pollVars, queueVars, txnVars, pureVars, sunVars, pcMain, thread_active, retry_left, sleep_left, join_waited,
                   msgs, slept, outcome,
                   source, last_known_cross, last_cross, cross_types, detected, last_check, first_fetched>>

\* while self._thread_active: false returns from _monitor_method.
PegExit ==
    /\ pc = "peg_loop"
    /\ ~thread_active
    /\ BodyEnds("returned")
    /\ slept' = 0
    /\ UNCHANGED <<cfgVars, pollVars, queueVars, txnVars, pureVars, pegVars, sunVars, pcMain, thread_active, sleep_left, join_waited,
                   msgs>>

\* if not time.time() > min_update_time: time.sleep(1); continue
PegSleep ==
    /\ pc = "peg_loop"
    /\ thread_active
    /\ min_update_left > 0
    /\ pc' = "peg_sleep"
    /\ sleep_left' = Ticks(1)
    /\ slept' = Ticks(1)
    /\ UNCHANGED <<cfgVars, pollVars, queueVars, txnVars, pureVars, pegVars, sunVars, pcMain, thread_active, retry_left, join_waited,
                   msgs, outcome>>

PegWake ==
    /\ pc = "peg_sleep"
    /\ sleep_left = 0
    /\ pc' = "peg_loop"
    /\ UNCHANGED <<cfgVars, pollVars, queueVars, txnVars, pureVars, pegVars, sunVars, pcMain, thread_active, retry_left, sleep_left,
                   join_waited, msgs, slept, outcome>>

\* min_update_time = time.time() + 1 / PEG_UPDATE_FREQUENCY
\* _check_for_peg_crosses, its first query: last_cross = last_cross().  The
\* cursor is initialized, or the record is not newer, or it is one id ahead and
\* is itself the new_cross_list; else the second query is due.
PegCheck ==
    /\ pc = "peg_loop"
    /\ thread_active
    /\ min_update_left = 0
    /\ min_update_left' = Ticks(PEG_UPDATE_PERIOD)
    /\ slept' = 0
    /\ last_cross' = LastCross(source)
    /\ LET number_of_new_crosses == NumberOfNewCrosses(last_cross', last_known_cross)
           done(known, types) ==
               /\ last_known_cross' = known
               /\ cross_types' = types
               /\ detected' = detected \o Crosses(types)
               /\ last_check' = [last_cross |-> last_cross', known |-> last_known_cross,
                                 n |-> 0, returned |-> Len(Crosses(types))]
               /\ pc' = "peg_render"
       IN  IF last_known_cross = None
           THEN done(last_cross', <<NO_CROSS>>) /\ first_fetched' = last_cross'.id
           ELSE /\ first_fetched' = first_fetched
                /\ IF NotNewer(last_cross', last_known_cross)
                   THEN done(last_known_cross, <<NO_CROSS>>)
                   ELSE IF Requested(number_of_new_crosses) > 0
                   THEN /\ pc' = "peg_get_last_crosses"
                        /\ UNCHANGED <<last_known_cross, cross_types, detected, last_check>>
                   ELSE done(last_cross',
                             CrossTypes(NewCrossList(source, last_cross', number_of_new_crosses)))
    /\ UNCHANGED <<cfgVars, pollVars, queueVars, txnVars, pureVars, sunVars, pcMain, thread_active, retry_left, sleep_left,
                   join_waited, msgs, outcome, source>>

\* _check_for_peg_crosses, its second query: get_last_crosses(n), on the graph
\* as it is now; then the cursor is set and the records are classified.
PegGetLastCrosses ==
    /\ pc = "peg_get_last_crosses"
    /\ LET number_of_new_crosses == NumberOfNewCrosses(last_cross, last_known_cross)
           types == CrossTypes(NewCrossList(source, last_cross, number_of_new_crosses))
       IN  /\ last_known_cross' = last_cross
           /\ cross_types' = types
           /\ detected' = detected \o types
           /\ last_check' = [last_cross |-> last_cross, known |-> last_known_cross,
                             n |-> Requested(number_of_new_crosses), returned |-> Len(types)]
    /\ pc' = "peg_render"
    /\ UNCHANGED <<cfgVars, pollVars, queueVars, txnVars, pureVars, sunVars, pcMain, thread_active, retry_left, sleep_left,
                   join_waited, msgs, slept, outcome,
                   source, min_update_left, last_cross, first_fetched>>

\* last_cross() or get_last_crosses() fails: the exception leaves _monitor_method
\* before last_known_cross is assigned.
PegFetchRaises ==
    /\ \/ pc = "peg_loop" /\ thread_active /\ min_update_left = 0
       \/ pc = "peg_get_last_crosses"
    /\ BodyEnds("raised")
    /\ slept' = 0
    /\ UNCHANGED <<cfgVars, pollVars, queueVars, txnVars, pureVars, pegVars, sunVars, pcMain, thread_active, sleep_left,
                   join_waited, msgs>>

\* for cross_type in cross_types: if cross_type != NO_CROSS: message_function(...)
PegRender ==
    /\ pc = "peg_render"
    /\ cross_types # <<>>
    /\ msgs' = IF Head(cross_types) # NO_CROSS
               THEN Append(msgs, PegCrossString(Head(cross_types)))
               ELSE msgs
    /\ cross_types' = Tail(cross_types)
    /\ UNCHANGED <<cfgVars, pollVars, queueVars, txnVars, pureVars, sunVars, pcMain, pc, thread_active, retry_left, sleep_left,
                   join_waited, slept, outcome,
                   source, last_known_cross, min_update_left, last_cross, detected, last_check,
                   first_fetched>>

\* message_function raises (a sink that sends on the caller's thread): the rest
\* of cross_types is dropped with the frame.
PegRenderRaises ==
    /\ pc = "peg_render"
    /\ cross_types # <<>>
    /\ Head(cross_types) # NO_CROSS
    /\ cross_types' = <<>>
    /\ BodyEnds("raised")
    /\ UNCHANGED <<cfgVars, pollVars, queueVars, txnVars, pureVars, sunVars, pcMain, thread_active, sleep_left, join_waited,
                   msgs, slept,
                   source, last_known_cross, min_update_left, last_cross, detected, last_check,
                   first_fetched>>

PegRendered ==
    /\ pc = "peg_render"
    /\ cross_types = <<>>
    /\ pc' = "peg_loop"
    /\ UNCHANGED <<cfgVars, pollVars, queueVars, txnVars, pureVars, pegVars, sunVars, pcMain, thread_active, retry_left, sleep_left,
                   join_waited, msgs, slept, outcome>>

\* The graph records one more cross, at the newest record's timestamp or later.
\* A cross is a change of side: its direction is the opposite of the one before.
NewCross ==
    /\ kind = "peg"
    /\ Len(source) < MaxCrosses
    /\ \E dt \in {0, 1} :
           source' = Append(source, [timestamp |-> source[Len(source)].timestamp + dt,
                                     above |-> ~source[Len(source)].above])
    /\ UNCHANGED <<cfgVars, pollVars, queueVars, txnVars, pureVars, sunVars, pcMain, pc, thread_active, retry_left, sleep_left,
                   join_waited, msgs, slept, outcome,
                   last_known_cross, min_update_left, last_cross, cross_types, detected, last_check,
                   first_fetched>>

PegBody == PegBegin \/ PegExit \/ PegSleep \/ PegWake \/ PegCheck \/ PegGetLastCrosses
              \/ PegFetchRaises
              \/ PegRender \/ PegRenderRaises \/ PegRendered

-----------------------------------------------------------------------------
(* SunriseMonitor *)

NoSeason == [id |-> 0, timestamp |-> 0]

NoPoll == [id |-> 0, timestamp |-> 0, now |-> 0, known |-> 0]

\* seconds_until_next_sunrise = SEASON_DURATION - time.time() % SEASON_DURATION
SecondsUntilNextSunrise(now) == SEASON_DURATION - (now % SEASON_DURATION)

\* sunrise_ready_timestamp = time.time() + seconds_until_next_sunrise
SunriseReadyTimestamp(now) == now + SecondsUntilNextSunrise(now)

\* The clock readings _wait_until_expected_sunrise starts from: one second and
\* one check period before a season boundary.
WaitClocks == {SEASON_DURATION - 1, SEASON_DURATION - SUNRISE_CHECK_PERIOD}

\* The clock readings a poll is judged at, as the age of the polled season:
\* just inside and just outside half a season.
PollAges == {(SEASON_DURATION \div 2) - 1, SEASON_DURATION \div 2}

\* The recency window a whole season long.
SufficientlyRecentWholeSeason(timestamp, now) == timestamp > now - SEASON_DURATION

\* int(current_season_stats['timestamp']) > time.time() - SEASON_DURATION / 2
SufficientlyRecent(timestamp, now) == timestamp > now - (SEASON_DURATION \div 2)

\* self.current_season_id != current_season_stats['id'] and sufficiently recent
NewSeasonDetected(known_id, current_season_stats, now) ==
    /\ known_id # current_season_stats.id
    /\ SufficientlyRecent(current_season_stats.timestamp, now)

\* season_summary_string of the stats returned for the season with this id.
SeasonSummaryString(id) == Msg("season", id)

\* while self._thread_active: false returns from _monitor_method.
SunExit ==
    /\ pc = "sun_loop"
    /\ ~thread_active
    /\ BodyEnds("returned")
    /\ slept' = 0
    /\ UNCHANGED <<cfgVars, pollVars, queueVars, txnVars, pureVars, pegVars, sunVars, pcMain, thread_active, sleep_left, join_waited,
                   msgs>>

\* _wait_until_expected_sunrise: sunrise_ready_timestamp is computed.
SunWaitBegin ==
    /\ pc = "sun_loop"
    /\ thread_active
    /\ \E now \in WaitClocks : sunrise_left' = Ticks(SecondsUntilNextSunrise(now))
    /\ pc' = "sun_wait"
    /\ slept' = 0
    /\ UNCHANGED <<cfgVars, pollVars, queueVars, txnVars, pureVars, pegVars, pcMain, thread_active, retry_left, sleep_left, join_waited,
                   msgs, outcome, season, current_season_id, stats, last_poll>>

\* while self._thread_active and time.time() < sunrise_ready_timestamp: time.sleep(1)
SunWaitSleep ==
    /\ pc = "sun_wait"
    /\ thread_active
    /\ sunrise_left > 0
    /\ pc' = "sun_wait_sleep"
    /\ sleep_left' = Ticks(1)
    /\ slept' = Ticks(1)
    /\ UNCHANGED <<cfgVars, pollVars, queueVars, txnVars, pureVars, pegVars, sunVars, pcMain, thread_active, retry_left, join_waited,
                   msgs, outcome>>

SunWaitWake ==
    /\ pc = "sun_wait_sleep"
    /\ sleep_left = 0
    /\ pc' = "sun_wait"
    /\ UNCHANGED <<cfgVars, pollVars, queueVars, txnVars, pureVars, pegVars, sunVars, pcMain, thread_active, retry_left, sleep_left,
                   join_waited, msgs, slept, outcome>>

\* The wait is over, or the monitor was stopped: on to _block_and_get_seasons_stats.
SunWaitDone ==
    /\ pc = "sun_wait"
    /\ ~thread_active \/ sunrise_left = 0
    /\ pc' = "sun_poll"
    /\ slept' = 0
    /\ UNCHANGED <<cfgVars, pollVars, queueVars, txnVars, pureVars, pegVars, sunVars, pcMain, thread_active, retry_left, sleep_left,
                   join_waited, msgs, outcome>>

\* _block_and_get_seasons_stats: while self._thread_active is false: return None, None;
\* _monitor_method then reports nothing and loops.
SunPollStopped ==
    /\ pc = "sun_poll"
    /\ ~thread_active
    /\ stats' = 0
    /\ pc' = "sun_loop"
    /\ slept' = 0
    /\ UNCHANGED <<cfgVars, pollVars, queueVars, txnVars, pureVars, pegVars, pcMain, thread_active, retry_left, sleep_left, join_waited,
                   msgs, outcome, season, current_season_id, sunrise_left,
                   last_poll>>

\* A new season is detected: current_season_id is set and the stats are returned.
SunPollMatch ==
    /\ pc = "sun_poll"
    /\ thread_active
    /\ \E age \in PollAges :
           LET now == season.timestamp + age
           IN  /\ NewSeasonDetected(current_season_id, season, now)
               /\ last_poll' = [id |-> season.id, timestamp |-> season.timestamp,
                                now |-> now, known |-> current_season_id]
    /\ current_season_id' = season.id
    /\ stats' = season.id
    /\ pc' = "sun_report"
    /\ slept' = 0
    /\ UNCHANGED <<cfgVars, pollVars, queueVars, txnVars, pureVars, pegVars, pcMain, thread_active, retry_left, sleep_left, join_waited,
                   msgs, outcome, season, sunrise_left>>

\* No new season: time.sleep(SUNRISE_CHECK_PERIOD), then the while test again.
SunPollSleep ==
    /\ pc = "sun_poll"
    /\ thread_active
    /\ \E age \in PollAges :
           LET now == season.timestamp + age
           IN  /\ ~NewSeasonDetected(current_season_id, season, now)
               /\ last_poll' = [id |-> season.id, timestamp |-> season.timestamp,
                                now |-> now, known |-> current_season_id]
    /\ pc' = "sun_poll_sleep"
    /\ sleep_left' = Ticks(SUNRISE_CHECK_PERIOD)
    /\ slept' = Ticks(SUNRISE_CHECK_PERIOD)
    /\ UNCHANGED <<cfgVars, pollVars, queueVars, txnVars, pureVars, pegVars, pcMain, thread_active, retry_left, join_waited,
                   msgs, outcome, season, current_season_id, sunrise_left, stats>>

SunPollWake ==
    /\ pc = "sun_poll_sleep"
    /\ sleep_left = 0
    /\ pc' = "sun_poll"
    /\ UNCHANGED <<cfgVars, pollVars, queueVars, txnVars, pureVars, pegVars, sunVars, pcMain, thread_active, retry_left, sleep_left,
                   join_waited, msgs, slept, outcome>>

\* seasons_stats() fails: the exception leaves _monitor_method.
SunPollRaises ==
    /\ pc = "sun_poll"
    /\ thread_active
    /\ BodyEnds("raised")
    /\ slept' = 0
    /\ UNCHANGED <<cfgVars, pollVars, queueVars, txnVars, pureVars, pegVars, sunVars, pcMain, thread_active, sleep_left, join_waited,
                   msgs>>

\* if current_season_stats: self.message_function(self.season_summary_string(...))
SunReport ==
    /\ pc = "sun_report"
    /\ msgs' = Append(msgs, SeasonSummaryString(stats))
    /\ stats' = 0
    /\ pc' = "sun_loop"
    /\ UNCHANGED <<cfgVars, pollVars, queueVars, txnVars, pureVars, pegVars, pcMain, thread_active, retry_left, sleep_left, join_waited,
                   slept, outcome, season, current_season_id, sunrise_left,
                   last_poll>>

\* season_summary_string or message_function raises: the stats are dropped with the frame.
SunReportRaises ==
    /\ pc = "sun_report"
    /\ stats' = 0
    /\ BodyEnds("raised")
    /\ UNCHANGED <<cfgVars, pollVars, queueVars, txnVars, pureVars, pegVars, pcMain, thread_active, sleep_left, join_waited,
                   msgs, slept, season, current_season_id, sunrise_left,
                   last_poll>>

\* A sunrise: the graph's current season becomes the next one, a season later.
NewSeason ==
    /\ kind = "sunrise"
    /\ season.id < MaxSeasons
    /\ season' = [id |-> season.id + 1, timestamp |-> season.timestamp + SEASON_DURATION]
    /\ UNCHANGED <<cfgVars, pollVars, queueVars, txnVars, pureVars, pegVars, pcMain, pc, thread_active, retry_left, sleep_left,
                   join_waited, msgs, slept, outcome,
                   current_season_id, sunrise_left, stats, last_poll>>

SunBody == SunExit \/ SunWaitBegin \/ SunWaitSleep \/ SunWaitWake \/ SunWaitDone
              \/ SunPollStopped \/ SunPollMatch \/ SunPollSleep \/ SunPollWake
              \/ SunPollRaises \/ SunReport \/ SunReportRaises

-----------------------------------------------------------------------------
(* DiscordClient: msg_queue, the send_msg_* producers, send_queued_messages *)

\* The monitor threads that append, and the channel each send_msg_* tags with.
Producers == {"peg", "sunrise"}

Channel(p) == IF p = "peg" THEN "PEG" ELSE "SEASONS"

NoEntry == [channel |-> "NONE", text |-> 0]

Elements(list) == {list[i] : i \in DOMAIN list}

\* list[1:]
Slice1(list) == IF list = <<>> THEN <<>> ELSE Tail(list)

\* send_msg_*: self.msg_queue is evaluated, the list it is bound to is on the stack.
SendMsgLoad(p) ==
    /\ ref[p] = 0
    /\ appended < MaxEntries
    /\ ref' = [ref EXCEPT ![p] = msg_queue]
    /\ UNCHANGED <<monitorVars, txnVars, pureVars, lists, msg_queue, appended, pcDrain, it_list, it_index, entry,
                   sliced, sent, removed>>

\* send_msg_*: .append((channel, text)) on the list loaded.
SendMsgAppend(p) ==
    /\ ref[p] # 0
    /\ lists' = [lists EXCEPT ![ref[p]] =
                     Append(@, [channel |-> Channel(p), text |-> appended + 1])]
    /\ appended' = appended + 1
    /\ ref' = [ref EXCEPT ![p] = 0]
    /\ UNCHANGED <<monitorVars, txnVars, pureVars, msg_queue, pcDrain, it_list, it_index, entry, sliced, sent,
                   removed>>

\* for channel, msg in self.msg_queue: the iterator is made over the list bound now.
DrainBegin ==
    /\ pcDrain = "idle"
    /\ it_list' = msg_queue
    /\ it_index' = 0
    /\ pcDrain' = "next"
    /\ UNCHANGED <<monitorVars, txnVars, pureVars, lists, msg_queue, appended, ref, entry, sliced, sent,
                   removed>>

\* The iterator yields the next entry of its list, or the loop ends.
DrainNext ==
    /\ pcDrain = "next"
    /\ IF it_index < Len(lists[it_list])
       THEN /\ entry' = lists[it_list][it_index + 1]
            /\ it_index' = it_index + 1
            /\ pcDrain' = "send"
       ELSE /\ pcDrain' = "idle"
            /\ UNCHANGED <<entry, it_index>>
    /\ UNCHANGED <<monitorVars, txnVars, pureVars, lists, msg_queue, appended, ref, it_list, sliced, sent,
                   removed>>

\* await self._channel_*.send(msg)
DrainSend ==
    /\ pcDrain = "send"
    /\ sent' = Append(sent, entry)
    /\ pcDrain' = "slice"
    /\ UNCHANGED <<monitorVars, txnVars, pureVars, lists, msg_queue, appended, ref, it_list, it_index, entry,
                   sliced, removed>>

\* self.msg_queue[1:] : a new list.
DrainSlice ==
    /\ pcDrain = "slice"
    /\ lists' = Append(lists, Slice1(lists[msg_queue]))
    /\ sliced' = Len(lists) + 1
    /\ pcDrain' = "store"
    /\ UNCHANGED <<monitorVars, txnVars, pureVars, msg_queue, appended, ref, it_list, it_index, entry, sent,
                   removed>>

\* self.msg_queue = ... : the attribute is bound to the new list.
DrainStore ==
    /\ pcDrain = "store"
    /\ msg_queue' = sliced
    /\ removed' = removed \cup (Elements(lists[msg_queue]) \ Elements(lists[sliced]))
    /\ pcDrain' = "next"
    /\ UNCHANGED <<monitorVars, txnVars, pureVars, lists, appended, ref, it_list, it_index, entry, sliced, sent>>

SendMsg == \E p \in Producers : SendMsgLoad(p) \/ SendMsgAppend(p)

SendQueuedMessages == DrainBegin \/ DrainNext \/ DrainSend \/ DrainSlice \/ DrainStore

-----------------------------------------------------------------------------
(* The event classifiers: default_pool_event_str, default_beanstalk_event_str, *)
(* silo_conversion_str                                                        *)

\* An event log: its event name, its logIndex, and for a pool Swap which of
\* amount0In, amount1In is positive ("none": neither).  NoneLog is Python's None.
Log(event, logIndex, args) == [event |-> event, logIndex |-> logIndex, args |-> args]

NoneLog == Log("None", 0, "none")

\* A rendered string: the event it reports, the log whose transaction hash its
\* link carries, and the parts it is concatenated from, in order.
Str(event, event_log, parts) == [type |-> event, id |-> event_log.logIndex, parts |-> parts]

\* ''
EmptyStr == [type |-> "", id |-> 0, parts |-> <<>>]

\* The call did not return: it raised.
Raises == [type |-> "raises", id |-> 0, parts |-> <<>>]

\* event_str += '\n<https://etherscan.io/tx/...>'; event_str += '\n_ _'
LinkAndMarker == <<"link", "_ _">>

default_pool_event_str(event_log) ==
    IF event_log = NoneLog THEN Raises
    ELSE IF event_log.event \in {"Mint", "Burn"}
    THEN Str(event_log.event, event_log, <<"text", "emojis">> \o LinkAndMarker)
    ELSE IF event_log.event = "Swap"
    THEN IF event_log.args \in {"amount0In", "amount1In"}
         THEN Str(event_log.event, event_log, <<"text", "emojis">> \o LinkAndMarker)
         ELSE EmptyStr
    ELSE Str(event_log.event, event_log, LinkAndMarker)

default_beanstalk_event_str(event_log) ==
    IF event_log = NoneLog THEN Raises
    ELSE IF event_log.event \in {"BeanRemove", "LPRemove"} THEN EmptyStr
    ELSE IF event_log.event \in {"LPDeposit", "LPWithdraw", "LPClaim",
                                 "BeanDeposit", "BeanWithdraw", "BeanClaim", "Sow"}
    THEN Str(event_log.event, event_log, <<"text", "emojis">> \o LinkAndMarker)
    ELSE EmptyStr

Has(event_logs, event) == \E i \in DOMAIN event_logs : event_logs[i].event = event

\* The for loop reads event_log.event of every element; the f-strings read the
\* names the loop bound; event_str is bound in one of the two branches only.
silo_conversion_str(event_logs) ==
    IF \E i \in DOMAIN event_logs : event_logs[i] = NoneLog THEN Raises
    ELSE IF Has(event_logs, "BeanRemove")
    THEN IF Has(event_logs, "LPDeposit")
         THEN Str("SiloConversion", event_logs[1], <<"text", "emojis", "link">>)
         ELSE Raises
    ELSE IF Has(event_logs, "LPRemove")
    THEN IF Has(event_logs, "BeanDeposit")
         THEN Str("SiloConversion", event_logs[1], <<"text", "emojis", "link">>)
         ELSE Raises
    ELSE Raises

-----------------------------------------------------------------------------
(* PoolMonitor and BeanstalkMonitor: _handle_txn_logs *)

\* A transaction of get_new_logs(): the class of its method signature and its
\* event logs.
Txn(method, event_logs) == [method |-> method, logs |-> event_logs]

NoTxn == Txn("none", <<>>)

\* No signature of the list is compared.
multi_sig_compare_none(txn, signatures) == FALSE

\* multi_sig_compare(txn_method_sig_prefix, signatures)
multi_sig_compare(txn, signatures) == txn.method = signatures

\* What one _handle_txn_logs call did: the strings rendered, the texts pushed,
\* whether it raised.
Handled(strs, texts, raised) == [rendered |-> strs, pushed |-> texts, raised |-> raised]

\* Strings up to the first call that raises.
Returned(strs) ==
    LET bad == {i \in DOMAIN strs : strs[i] = Raises}
        n == IF bad = {} THEN Len(strs) ELSE (CHOOSE i \in bad : \A j \in bad : i <= j) - 1
    IN  SubSeq(strs, 1, n)

NonEmpty(strs) == SelectSeq(strs, LAMBDA event_str : event_str # EmptyStr)

\* if event_str: self.message_function(event_str)
PoolHandleTxnLogs(txn) ==
    IF multi_sig_compare(txn, "silo_conversion") THEN Handled(<<>>, <<>>, FALSE)
    ELSE LET strs == [i \in DOMAIN txn.logs |-> default_pool_event_str(txn.logs[i])]
         IN  Handled(Returned(strs), NonEmpty(Returned(strs)), Returned(strs) # strs)

\* if last_bean_deposit is None or event_log.logIndex > last_bean_deposit.logIndex
IsLaterFirstWins(event_log, last_bean_deposit) ==
    last_bean_deposit = NoneLog

IsLater(event_log, last_bean_deposit) ==
    last_bean_deposit = NoneLog \/ event_log.logIndex > last_bean_deposit.logIndex

\* The pruning loop's last_bean_deposit, from last_bean_deposit = None.
RECURSIVE LastBeanDeposit(_, _)
LastBeanDeposit(event_logs, last_bean_deposit) ==
    IF event_logs = <<>> THEN last_bean_deposit
    ELSE LET event_log == Head(event_logs)
         IN  LastBeanDeposit(Tail(event_logs),
                             IF event_log.event = "BeanDeposit" /\ IsLater(event_log, last_bean_deposit)
                             THEN event_log
                             ELSE last_bean_deposit)

BeanDepositLogs(event_logs) == SelectSeq(event_logs, LAMBDA event_log : event_log.event = "BeanDeposit")

\* list.remove(x): the list without its first element equal to x.
Remove(list, x) ==
    LET at == {i \in DOMAIN list : list[i] = x}
        first == CHOOSE i \in at : \A j \in at : i <= j
    IN  IF at = {} THEN list
        ELSE SubSeq(list, 1, first - 1) \o SubSeq(list, first + 1, Len(list))

\* for event_log in bean_deposit_logs: event_logs.remove(event_log)
RECURSIVE RemoveEach(_, _)
RemoveEach(event_logs, bean_deposit_logs) ==
    IF bean_deposit_logs = <<>> THEN event_logs
    ELSE RemoveEach(Remove(event_logs, Head(bean_deposit_logs)), Tail(bean_deposit_logs))

Pruned(event_logs) == RemoveEach(event_logs, BeanDepositLogs(event_logs))

\* event_logs.append(last_bean_deposit)
Reattached(event_logs) == Append(Pruned(event_logs), LastBeanDeposit(event_logs, NoneLog))

\* self.message_function(event_str), whatever event_str is
BeanstalkHandleTxnLogs(txn) ==
    IF multi_sig_compare(txn, "silo_conversion")
    THEN LET event_str == silo_conversion_str(Reattached(txn.logs))
         IN  IF event_str = Raises THEN Handled(<<>>, <<>>, TRUE)
             ELSE Handled(<<event_str>>, <<event_str>>, FALSE)
    ELSE LET event_logs == IF multi_sig_compare(txn, "bean_deposit")
                           THEN Reattached(txn.logs)
                           ELSE Pruned(txn.logs)
             strs == [i \in DOMAIN event_logs |-> default_beanstalk_event_str(event_logs[i])]
         IN  Handled(Returned(strs), Returned(strs), Returned(strs) # strs)

HandleTxnLogs(k, txn) == IF k = "pool" THEN PoolHandleTxnLogs(txn) ELSE BeanstalkHandleTxnLogs(txn)

-----------------------------------------------------------------------------
(* PoolMonitor and BeanstalkMonitor: _monitor_method *)

\* The logs the pool sends: a liquidity event, the three shapes of a Swap, and
\* an event default_pool_event_str has no branch for.
PoolLogKinds == {<<"Mint", "none">>, <<"Swap", "amount0In">>, <<"Swap", "amount1In">>,
                 <<"Swap", "none">>, <<"Sync", "none">>}

\* The logs the Beanstalk contract sends: deposits, removes, and an event
\* default_beanstalk_event_str has no branch for.
BeanstalkLogKinds == {<<"BeanDeposit", "none">>, <<"LPDeposit", "none">>, <<"BeanRemove", "none">>,
                      <<"LPRemove", "none">>, <<"Pause", "none">>}

LogKinds(k) == IF k = "pool" THEN PoolLogKinds ELSE BeanstalkLogKinds

Methods == {"silo_conversion", "bean_deposit", "other"}

\* The transactions of n event logs: the logs of one transaction come in
\* logIndex order.
Txns(k, n) ==
    {Txn(method, [i \in 1..n |-> Log(kinds[i][1], i, kinds[i][2])]) :
        method \in Methods, kinds \in [1..n -> LogKinds(k)]}

\* What get_new_logs() may return when at most n more logs are fetched: no
\* transaction, one, or one followed by a transaction of a single log.
Batches(k, n) ==
    {<<>>}
    \cup UNION {{<<txn>> : txn \in Txns(k, m)} : m \in 1..n}
    \cup UNION {{<<txn, next>> : txn \in Txns(k, m), next \in Txns(k, 1)} : m \in 1..(n - 1)}

TextMsgs(texts) == [i \in DOMAIN texts |-> Msg(texts[i].type, texts[i].id)]

\* while True: the loop goes on without the flag.
TxnExitNever ==
    /\ pc = "txn_loop"
    /\ ~thread_active
    /\ pc' = "txn_sleep"
    /\ sleep_left' = HalfSecond
    /\ slept' = HalfSecond
    /\ UNCHANGED <<cfgVars, pollVars, queueVars, pegVars, sunVars, txnVars, pureVars, pcMain, thread_active,
                   retry_left, join_waited, msgs, outcome>>

\* while self._thread_active: false returns.
TxnExit ==
    /\ pc = "txn_loop"
    /\ ~thread_active
    /\ BodyEnds("returned")
    /\ slept' = 0
    /\ UNCHANGED <<cfgVars, pollVars, queueVars, pegVars, sunVars, txnVars, pureVars, pcMain, thread_active,
                   sleep_left, join_waited, msgs>>

\* if time.time() < last_check_time + CHECK_RATE: time.sleep(0.5); continue
TxnSleep ==
    /\ pc = "txn_loop"
    /\ thread_active
    /\ check_left > 0
    /\ pc' = "txn_sleep"
    /\ sleep_left' = HalfSecond
    /\ slept' = HalfSecond
    /\ UNCHANGED <<cfgVars, pollVars, queueVars, pegVars, sunVars, txnVars, pureVars, pcMain, thread_active,
                   retry_left, join_waited, msgs, outcome>>

TxnWake ==
    /\ pc = "txn_sleep"
    /\ sleep_left = 0
    /\ pc' = "txn_loop"
    /\ UNCHANGED <<cfgVars, pollVars, queueVars, pegVars, sunVars, txnVars, pureVars, pcMain, thread_active,
                   retry_left, sleep_left, join_waited, msgs, slept, outcome>>

\* last_check_time = time.time(); get_new_logs(dry_run=self._dry_run).items()
TxnPoll ==
    /\ pc = "txn_loop"
    /\ thread_active
    /\ check_left = 0
    /\ check_left' = Ticks(QueryRate(kind))
    /\ \E txns \in Batches(kind, MaxLogs - fetched) :
          /\ batch' = txns
          /\ fetched' = IF txns = <<>> THEN fetched ELSE MaxLogs
    /\ pc' = "txn_for"
    /\ slept' = 0
    /\ UNCHANGED <<cfgVars, pollVars, queueVars, pegVars, sunVars, pureVars, group, rendered, pushed, handled,
                   pcMain,
                   thread_active, retry_left, sleep_left, join_waited, msgs, outcome>>

\* get_new_logs() raises.
TxnPollRaises ==
    /\ pc = "txn_loop"
    /\ thread_active
    /\ check_left = 0
    /\ check_left' = Ticks(QueryRate(kind))
    /\ BodyEnds("raised")
    /\ slept' = 0
    /\ UNCHANGED <<cfgVars, pollVars, queueVars, pegVars, sunVars, txnLogVars, pureVars, pcMain, thread_active,
                   sleep_left, join_waited, msgs>>

\* self._handle_txn_logs(txn_hash, event_logs): returns, or raises what a
\* classifier raised.
TxnHandle ==
    /\ pc = "txn_for"
    /\ batch # <<>>
    /\ LET did == HandleTxnLogs(kind, Head(batch))
       IN  /\ group' = Head(batch)
           /\ rendered' = did.rendered
           /\ pushed' = did.pushed
           /\ msgs' = msgs \o TextMsgs(did.pushed)
           /\ handled' = IF did.raised THEN "raised" ELSE "returned"
           /\ IF did.raised
              THEN /\ BodyEnds("raised")
                   /\ batch' = <<>>
              ELSE /\ batch' = Tail(batch)
                   /\ UNCHANGED <<pc, outcome, retry_left>>
    /\ UNCHANGED <<cfgVars, pollVars, queueVars, pegVars, sunVars, pureVars, check_left, fetched, pcMain,
                   thread_active, sleep_left, join_waited, slept>>

\* An external call of _handle_txn_logs raises: get_transaction before
\* anything is rendered, or a price or graph query of a classifier.
TxnHandleRaises ==
    /\ pc = "txn_for"
    /\ batch # <<>>
    /\ LET did == HandleTxnLogs(kind, Head(batch))
       IN  \E n \in {0} \cup (0..(Len(did.rendered) - 1)) :
              /\ group' = Head(batch)
              /\ rendered' = SubSeq(did.rendered, 1, n)
              /\ pushed' = IF kind = "pool" THEN NonEmpty(rendered') ELSE rendered'
              /\ msgs' = msgs \o TextMsgs(pushed')
    /\ handled' = "external"
    /\ BodyEnds("raised")
    /\ batch' = <<>>
    /\ UNCHANGED <<cfgVars, pollVars, queueVars, pegVars, sunVars, pureVars, check_left, fetched, pcMain,
                   thread_active, sleep_left, join_waited, slept>>

\* The for loop is through.
TxnForDone ==
    /\ pc = "txn_for"
    /\ batch = <<>>
    /\ pc' = "txn_loop"
    /\ UNCHANGED <<cfgVars, pollVars, queueVars, pegVars, sunVars, txnVars, pureVars, pcMain, thread_active,
                   retry_left, sleep_left, join_waited, msgs, slept, outcome>>

TxnBody == TxnExit \/ TxnSleep \/ TxnWake \/ TxnPoll \/ TxnPollRaises \/ TxnHandle
           \/ TxnHandleRaises \/ TxnForDone

-----------------------------------------------------------------------------
(* The formatting utilities: value_to_emojis, lp_eq_values *)

\* Nothing returned yet; <<v>> once v was returned.
NoResult == <<>>

RECURSIVE Pow(_, _)
Pow(base, n) == IF n = 0 THEN 1 ELSE base * Pow(base, n - 1)

\* The quotient n / d as an integer, exact halves going to the even neighbour.
RoundHalfEvenDiv(n, d) ==
    LET q == n \div d
        r == n % d
    IN  IF 2 * r < d THEN q
        ELSE IF 2 * r > d THEN q + 1
        ELSE IF q % 2 = 0 THEN q ELSE q + 1

\* Rounding that drops the remainder.
RoundDown(value, digits) == (value \div Pow(10, digits)) * Pow(10, digits)

\* Rounding that always goes to the next multiple.
RoundPastNext(value, digits) == ((value \div Pow(10, digits)) + 1) * Pow(10, digits)

\* round(value, -digits) of a Python int.
Round(value, digits) == RoundHalfEvenDiv(value, Pow(10, digits)) * Pow(10, digits)

\* A string of emojis: count times one symbol.
Emojis(symbol, count) == [symbol |-> symbol, count |-> count]

\* ''
NoEmojis == Emojis("", 0)

\* symbol * count
Repeat(symbol, count) == IF count = 0 THEN NoEmojis ELSE Emojis(symbol, count)

\* x or y
Or(x, y) == IF x = NoEmojis THEN y ELSE x

value_to_emojis(value) ==
    IF value < 0 THEN NoEmojis
    ELSE IF Round(value, 3) < 10000
    THEN Or(Repeat("fish", Round(value, 3) \div 1000), Repeat("fish", 1))
    ELSE IF Round(Round(value, 3), 4) < 100000
    THEN Repeat("shark", Round(Round(value, 3), 4) \div 10000)
    ELSE Repeat("whale", Round(Round(Round(value, 3), 4), 5) \div 100000)

\* A float: mantissa * 2^exponent, the mantissa of Precision bits (0 for 0.0).
\* The exponent has no bounds: no overflow, no subnormal numbers.
Float(mantissa, exponent) == [m |-> mantissa, e |-> exponent]

\* The float nearest to (num / den) * 2^exponent, halves going to the even
\* mantissa, for num, den > 0.
RECURSIVE RoundToFloat(_, _, _)
RoundToFloat(num, den, exponent) ==
    IF num < den * Pow(2, Precision - 1) THEN RoundToFloat(2 * num, den, exponent - 1)
    ELSE IF num >= den * Pow(2, Precision) THEN RoundToFloat(num, 2 * den, exponent + 1)
    ELSE IF RoundHalfEvenDiv(num, den) = Pow(2, Precision)
    THEN Float(Pow(2, Precision - 1), exponent + 1)
    ELSE Float(RoundHalfEvenDiv(num, den), exponent)

\* float(n) of a positive integer
FromInt(n) == RoundToFloat(n, 1, 0)

\* x / y
Div(x, y) ==
    IF x.e >= y.e
    THEN RoundToFloat(x.m * Pow(2, x.e - y.e), y.m, 0)
    ELSE RoundToFloat(x.m, y.m * Pow(2, y.e - x.e), 0)

\* x * y
Mul(x, y) == RoundToFloat(x.m * y.m, 1, x.e + y.e)

\* return bean_lp, eth_lp: the pair the other way round.
lp_eq_values_swapped(lp, total_lp, pooled_eth, pooled_beans) ==
    <<Mul(lp, Div(pooled_beans, total_lp)), Mul(lp, Div(pooled_eth, total_lp))>>

\* raise ValueError('Must provide (total_lp & pooled_eth & pooled_beans) OR ...')
ValueError == <<"ValueError">>

\* A figure that is None taken as 1.0, and no error raised.
lp_eq_values_defaulting(lp, total_lp, pooled_eth, pooled_beans) ==
    LET given(x) == IF x = None THEN FromInt(1) ELSE x
    IN  <<Mul(lp, Div(given(pooled_eth), given(total_lp))),
          Mul(lp, Div(given(pooled_beans), given(total_lp)))>>

\* lp_eq_values(lp, total_lp, pooled_eth, pooled_beans), no graph client given
\* and None for a figure left out: ValueError raised, or the pair eth_lp, bean_lp.
lp_eq_values(lp, total_lp, pooled_eth, pooled_beans) ==
    IF None \in {total_lp, pooled_eth, pooled_beans} THEN ValueError
    ELSE LET bean_pool_ratio == Div(pooled_beans, total_lp)
             eth_pool_ratio == Div(pooled_eth, total_lp)
             eth_lp == Mul(lp, eth_pool_ratio)
             bean_lp == Mul(lp, bean_pool_ratio)
         IN  <<eth_lp, bean_lp>>

\* The calls: value_to_emojis on every integer of a range; lp_eq_values on lp
\* or on 2 * lp, with positive pool figures.
ValueCalls == {[function |-> "value_to_emojis", value |-> value] :
                  value \in (0 - MaxNegative)..MaxValue}

LpCalls == {[function |-> "lp_eq_values", lp |-> lp, total_lp |-> total_lp,
             pooled_eth |-> pooled_eth, pooled_beans |-> pooled_beans] :
               lp \in 1..(2 * MaxAmount), total_lp \in 1..MaxAmount,
               pooled_eth \in 1..MaxAmount, pooled_beans \in 1..MaxAmount}

\* lp_eq_values with any of its three keyword arguments left out.
LpCallsMissing ==
    {[function |-> "lp_eq_values", lp |-> lp, total_lp |-> MaxAmount, pooled_eth |-> MaxAmount,
      pooled_beans |-> MaxAmount, missing |-> missing] :
        lp \in {1, MaxAmount}, missing \in SUBSET {"total_lp", "pooled_eth", "pooled_beans"}}

\* The value a keyword argument of the call has: its default None when left out.
Given(name, value) == IF name \in call.missing THEN None ELSE FromInt(value)

\* A _monitor_method that calls lp_eq_values and ends: it returns when the
\* call returned, and the call's exception is its own.
GenericCallsLpEqValues ==
    /\ pc = "body"
    /\ kind = "generic"
    /\ call.function = "lp_eq_values"
    /\ LET eq_values == lp_eq_values(FromInt(call.lp), Given("total_lp", call.total_lp),
                                     Given("pooled_eth", call.pooled_eth),
                                     Given("pooled_beans", call.pooled_beans))
       IN  /\ result' = <<eq_values>>
           /\ BodyEnds(IF eq_values = ValueError THEN "raised" ELSE "returned")
    /\ idle' = 0
    /\ UNCHANGED <<cfgVars, history, queueVars, txnVars, call, pegVars, sunVars, pcMain, thread_active,
                   sleep_left, join_waited, msgs, slept>>

\* _wait_until_expected_sunrise at every second of the first seasons.
SunriseCalls == {[function |-> "_wait_until_expected_sunrise", now |-> now] :
                    now \in 0..(MaxBoundaries * SEASON_DURATION)}

\* _wait_until_expected_sunrise, up to its loop: the instant it waits for.
CallWaitUntilExpectedSunrise ==
    /\ call.function = "_wait_until_expected_sunrise"
    /\ result = NoResult
    /\ result' = <<SunriseReadyTimestamp(call.now)>>
    /\ UNCHANGED <<monitorVars, queueVars, txnVars, call>>

CallValueToEmojis ==
    /\ call.function = "value_to_emojis"
    /\ result = NoResult
    /\ result' = <<value_to_emojis(call.value)>>
    /\ UNCHANGED <<monitorVars, queueVars, txnVars, call>>

CallLpEqValues ==
    /\ call.function = "lp_eq_values"
    /\ result = NoResult
    /\ result' = <<lp_eq_values(FromInt(call.lp), FromInt(call.total_lp),
                                FromInt(call.pooled_eth), FromInt(call.pooled_beans))>>
    /\ UNCHANGED <<monitorVars, queueVars, txnVars, call>>

-----------------------------------------------------------------------------
(* Time *)

\* The time one Tick stands for: half a second for the bare poller, whose claims
\* are about its delays; one polling period for the monitors, whose claims are
\* about what they fetch and emit.
TickStep == IF kind = "generic" THEN HalfSecond ELSE Ticks(QueryRate(kind))

\* Time passes.  stop()'s join does not outlast its timeout.
Tick ==
    /\ ~(pcMain = "joining" /\ join_waited >= JoinTimeout)
    /\ sleep_left' = Less(sleep_left, TickStep)
    /\ retry_left' = Less(retry_left, TickStep)
    /\ join_waited' = IF pcMain = "joining" THEN join_waited + TickStep ELSE join_waited
    /\ min_update_left' = Less(min_update_left, TickStep)
    /\ sunrise_left' = Less(sunrise_left, TickStep)
    /\ check_left' = Less(check_left, TickStep)
    /\ idle' = IF kind = "generic" /\ idle + TickStep <= Ticks(MONITOR_RESET_DELAY)
               THEN idle + TickStep
               ELSE idle
    /\ UNCHANGED <<cfgVars, history, queueVars, txnLogVars, pureVars, pcMain, pc, thread_active, msgs, slept, outcome,
                   source, last_known_cross, last_cross, cross_types, detected, last_check, first_fetched,
                   season, current_season_id, stats, last_poll>>

-----------------------------------------------------------------------------

InitCommon ==
    /\ prod \in BOOLEAN
    /\ pcMain = "init"
    /\ pc = "idle"
    /\ thread_active = FALSE
    /\ retry_left = 0
    /\ sleep_left = 0
    /\ join_waited = 0
    /\ msgs = <<>>
    /\ slept = 0
    /\ outcome = "none"
    /\ idle = Ticks(MONITOR_RESET_DELAY)
    /\ history = <<>>

Lifecycle == Start \/ Stop \/ JoinReturn

Wrapper == WrapperExit \/ WrapperSleep \/ WrapperWake \/ WrapperInvoke

\* The peg variables of a monitor that is no PegCrossMonitor.
NoPeg ==
    /\ source = <<>>
    /\ last_known_cross = None
    /\ min_update_left = 0
    /\ last_cross = None
    /\ cross_types = <<>>
    /\ detected = <<>>
    /\ last_check = NoCheck
    /\ first_fetched = 0

\* The sunrise variables of a monitor that is no SunriseMonitor.
NoSunrise ==
    /\ season = NoSeason
    /\ current_season_id = 0
    /\ sunrise_left = 0
    /\ stats = 0
    /\ last_poll = NoPoll

\* The queue variables of a monitor whose sink is no DiscordClient.
NoQueue ==
    /\ lists = <<>>
    /\ msg_queue = 0
    /\ appended = 0
    /\ ref = [p \in Producers |-> 0]
    /\ pcDrain = "none"
    /\ it_list = 0
    /\ it_index = 0
    /\ entry = NoEntry
    /\ sliced = 0
    /\ sent = <<>>
    /\ removed = {}

\* The log variables of a monitor that is no PoolMonitor or BeanstalkMonitor.
NoLogs ==
    /\ check_left = 0
    /\ batch = <<>>
    /\ fetched = 0
    /\ group = NoTxn
    /\ rendered = <<>>
    /\ pushed = <<>>
    /\ handled = "none"

\* No formatting utility is being called.
NoCall ==
    /\ call = [function |-> "none"]
    /\ result = NoResult

\* Any Monitor: dry_run is the caller's choice.
InitGeneric ==
    /\ kind = "generic"
    /\ dry_run \in BOOLEAN
    /\ InitCommon
    /\ NoPeg
    /\ NoSunrise
    /\ NoQueue
    /\ NoLogs
    /\ NoCall

NextGeneric == Lifecycle \/ Wrapper \/ GenericReturn \/ GenericRaise \/ Tick

SpecGeneric == InitGeneric /\ [][NextGeneric]_vars

\* A Monitor in development mode, the ends of its body on record.
InitRecorded ==
    /\ InitGeneric
    /\ prod = FALSE
    /\ dry_run = FALSE

NextRecorded == Lifecycle \/ Wrapper \/ RecordedReturn \/ RecordedRaise \/ Tick

SpecRecorded == InitRecorded /\ [][NextRecorded]_vars

\* A Monitor in development mode whose body calls lp_eq_values.
InitLpBody ==
    /\ kind = "generic"
    /\ prod = FALSE
    /\ dry_run = FALSE
    /\ InitCommon
    /\ NoPeg
    /\ NoSunrise
    /\ NoQueue
    /\ NoLogs
    /\ call \in LpCallsMissing
    /\ result = NoResult

NextLpBody == Lifecycle \/ Wrapper \/ GenericCallsLpEqValues \/ Tick

SpecLpBody == InitLpBody /\ [][NextLpBody]_vars

\* PegCrossMonitor.__init__: dry_run=False, last_known_cross = None.  The graph
\* holds at least one cross.
InitPeg ==
    /\ kind = "peg"
    /\ dry_run = FALSE
    /\ InitCommon
    /\ \E above \in BOOLEAN : source = <<[timestamp |-> 1, above |-> above]>>
    /\ last_known_cross = None
    /\ min_update_left = 0
    /\ last_cross = None
    /\ cross_types = <<>>
    /\ detected = <<>>
    /\ last_check = NoCheck
    /\ first_fetched = 0
    /\ NoSunrise
    /\ NoQueue
    /\ NoLogs
    /\ NoCall

\* SunriseMonitor.__init__: dry_run=False, current_season_id = None.  The graph
\* is in some season.
InitSunrise ==
    /\ kind = "sunrise"
    /\ dry_run = FALSE
    /\ InitCommon
    /\ NoPeg
    /\ season = [id |-> 1, timestamp |-> SEASON_DURATION]
    /\ current_season_id = 0
    /\ sunrise_left = 0
    /\ stats = 0
    /\ last_poll = NoPoll
    /\ NoQueue
    /\ NoLogs
    /\ NoCall

\* The two event monitors: a PegCrossMonitor or a SunriseMonitor.
Init == InitPeg \/ InitSunrise

Next == Lifecycle \/ Wrapper \/ PegBody \/ NewCross \/ SunBody \/ NewSeason \/ Tick

Spec == Init /\ [][Next]_vars

\* DiscordClient.__init__: self.msg_queue = [], the drain task not yet in a cycle.
\* The monitors are left out: their threads appear as the producers.
InitQueue ==
    /\ kind = "generic"
    /\ prod = FALSE
    /\ dry_run = FALSE
    /\ InitCommon
    /\ NoPeg
    /\ NoSunrise
    /\ lists = << <<>> >>
    /\ msg_queue = 1
    /\ appended = 0
    /\ ref = [p \in Producers |-> 0]
    /\ pcDrain = "idle"
    /\ it_list = 0
    /\ it_index = 0
    /\ entry = NoEntry
    /\ sliced = 0
    /\ sent = <<>>
    /\ removed = {}
    /\ NoLogs
    /\ NoCall

NextQueue == SendMsg \/ SendQueuedMessages

SpecQueue == InitQueue /\ [][NextQueue]_vars

\* PoolMonitor.__init__, BeanstalkMonitor.__init__ as the bots call them:
\* dry_run=False; prod=False, so that start and stop are announced.  No
\* transaction has been handled.
InitTxn ==
    /\ kind \in {"pool", "beanstalk"}
    /\ dry_run = FALSE
    /\ InitCommon
    /\ prod = FALSE
    /\ NoPeg
    /\ NoSunrise
    /\ NoQueue
    /\ NoLogs
    /\ NoCall

NextTxn == Lifecycle \/ Wrapper \/ TxnBody \/ Tick

SpecTxn == InitTxn /\ [][NextTxn]_vars

-----------------------------------------------------------------------------
(* The supervised poller under fair scheduling: the thread gets to run and   *)
(* time passes.                                                              *)

FairGeneric == SpecGeneric /\ WF_vars(Wrapper) /\ WF_vars(Tick)

\* The formatting utilities, each called once on arguments of its choice.
InitUtil ==
    /\ kind = "generic"
    /\ prod = FALSE
    /\ dry_run = FALSE
    /\ InitCommon
    /\ NoPeg
    /\ NoSunrise
    /\ NoQueue
    /\ NoLogs
    /\ call \in ValueCalls \cup LpCalls \cup SunriseCalls
    /\ result = NoResult

NextUtil == CallValueToEmojis \/ CallLpEqValues \/ CallWaitUntilExpectedSunrise

SpecUtil == InitUtil /\ [][NextUtil]_vars

\* The four monitors of a bot under fair scheduling: each thread gets to run,
\* time passes, and stop()'s join returns.  The graph and the chain have little
\* left to send: two crosses, two seasons, one event log.
InitLatePeg ==
    /\ kind = "peg"
    /\ dry_run = FALSE
    /\ InitCommon
    /\ prod = FALSE
    /\ source = [i \in 1..(MaxCrosses - 2) |-> [timestamp |-> i, above |-> i % 2 = 0]]
    /\ last_known_cross = None
    /\ min_update_left = 0
    /\ last_cross = None
    /\ cross_types = <<>>
    /\ detected = <<>>
    /\ last_check = NoCheck
    /\ first_fetched = 0
    /\ NoSunrise
    /\ NoQueue
    /\ NoLogs
    /\ NoCall

InitLateSunrise ==
    /\ kind = "sunrise"
    /\ dry_run = FALSE
    /\ InitCommon
    /\ prod = FALSE
    /\ NoPeg
    /\ season = [id |-> MaxSeasons - 2, timestamp |-> (MaxSeasons - 2) * SEASON_DURATION]
    /\ current_season_id = 0
    /\ sunrise_left = 0
    /\ stats = 0
    /\ last_poll = NoPoll
    /\ NoQueue
    /\ NoLogs
    /\ NoCall

InitLateTxn ==
    /\ kind \in {"pool", "beanstalk"}
    /\ dry_run = FALSE
    /\ InitCommon
    /\ prod = FALSE
    /\ NoPeg
    /\ NoSunrise
    /\ NoQueue
    /\ check_left = 0
    /\ batch = <<>>
    /\ fetched = MaxLogs - 1
    /\ group = NoTxn
    /\ rendered = <<>>
    /\ pushed = <<>>
    /\ handled = "none"
    /\ NoCall

InitMonitors == InitLatePeg \/ InitLateSunrise \/ InitLateTxn

Thread == Wrapper \/ PegBody \/ SunBody \/ TxnBody

NextMonitors == Lifecycle \/ Thread \/ NewCross \/ NewSeason \/ Tick

FairMonitors ==
    /\ InitMonitors
    /\ [][NextMonitors]_vars
    /\ WF_vars(Thread)
    /\ WF_vars(Tick)
    /\ WF_vars(JoinReturn)

-----------------------------------------------------------------------------
(* Properties *)

\* C1: whatever the polling body does, return or raise, the background loop
\* ends only after stop() was called, and after each failure of the body the
\* body is invoked again unless stop() is called first.
C1_PollerSurvivesFailures ==
    /\ [](pc = "done" => pcMain # "started")
    /\ (outcome = "raised") ~> (outcome = "retrying" \/ pcMain # "started")

\* The body is running again after a failure, stop() not called.
C1_Witness == outcome = "retrying" /\ pcMain = "started" /\ pc = "body"

\* The timestamps of the graph's records strictly increase.
StrictTimestamps ==
    \A i, j \in DOMAIN source : i < j => source[i].timestamp < source[j].timestamp

\* The direction of each record after record lo up to record hi, oldest first.
Directions(lo, hi) ==
    [i \in 1..(hi - lo) |->
        [id |-> lo + i,
         type |-> IF source[lo + i].above THEN "CROSS_ABOVE" ELSE "CROSS_BELOW"]]

\* C2: nothing is emitted on the first fetch, and after every later fetch the
\* detector has emitted exactly one direction per id after the first fetched one
\* up to the latest fetched one, in id order; stated for graphs whose timestamps
\* strictly increase with the ids, where a greater id is a newer record.
C2_OneDirectionPerNewId ==
    (first_fetched > 0 /\ StrictTimestamps)
        => detected = Directions(first_fetched, last_check.last_cross.id)

\* C3: when the latest record is newer than the cursor and its id is more than
\* one ahead, exactly that many records are requested and that many crosses
\* are emitted.
C3_RequestsAndEmitsDelta ==
    LET delta == last_check.last_cross.id - last_check.known.id
    IN  (/\ last_check.known # None
         /\ last_check.last_cross.timestamp > last_check.known.timestamp
         /\ delta > 1)
            => last_check.n = delta /\ last_check.returned = delta

\* A poll found the latest id two ahead of the cursor.
C3_Witness ==
    /\ last_check.known # None
    /\ last_check.last_cross.id = last_check.known.id + 2
    /\ last_check.returned = 2

\* C4: no two notifications of a run are about the same event, failed and
\* retried polls included; the graph's latest id and timestamp never decrease.
C4_NoEventTwice ==
    \A i, j \in DOMAIN msgs : (i < j /\ msgs[i].id > 0) => msgs[i].id # msgs[j].id

\* The entries the drain task can still reach: the queue's list, the rest of
\* the list being iterated, the entry in hand.
Reachable ==
    Elements(lists[msg_queue])
        \cup (IF pcDrain = "idle" THEN {}
              ELSE {lists[it_list][i] : i \in (it_index + 1)..Len(lists[it_list])})
        \cup (IF pcDrain = "send" THEN {entry} ELSE {})

\* C5: every entry appended has been sent or can still be sent.
C5_NoEntryLost ==
    \A l \in DOMAIN lists : Elements(lists[l]) \subseteq Elements(sent) \cup Reachable

\* C6: when a drain cycle has ended, the entries it dropped from the queue are
\* entries that were sent, and no entry was sent twice.
C6_RemovesOnlyWhatItSent ==
    /\ pcDrain = "idle" => removed \subseteq Elements(sent)
    /\ \A i, j \in DOMAIN sent : i < j => sent[i] # sent[j]

\* C7: no sleep between two reads of the stop flag is longer than one second.
C7_SleepsAtMostOneSecond == slept <= Ticks(1)

\* C8: once stop() was called the run flag is clear; the join waits at most
\* three periods; the stopped notification is emitted exactly once, when stop()
\* returns, whatever prod.
C8_StopClearsWaitsNotifiesOnce ==
    /\ pcMain \in {"joining", "stopped"} => ~thread_active
    /\ join_waited <= 3 * Ticks(QueryRate(kind))
    /\ CountOf("stopped") = IF pcMain = "stopped" THEN 1 ELSE 0

\* stop() returned in production after the join timed out on a live thread.
C8_Witness ==
    /\ pcMain = "stopped"
    /\ prod
    /\ pc # "done"
    /\ join_waited = 3 * Ticks(QueryRate(kind))
    /\ CountOf("stopped") = 1

Started == CountOf("started") + CountOf("started_simulated")

\* C9 as stated: after start() a production instance has emitted no started
\* notification, a non-production or dry-run instance exactly one, none later.
C9_NoneInProductionElseOne ==
    pcMain # "init" => /\ prod => Started = 0
                       /\ (~prod \/ dry_run) => Started = 1

\* C9 amended: none for a production instance that is no dry run, exactly one
\* otherwise; nothing before start(), and the count stands before the body is
\* first invoked.
C9_NoneInProductionUnlessDryRun ==
    /\ Started = IF pcMain = "init" \/ (prod /\ ~dry_run) THEN 0 ELSE 1
    /\ outcome # "none" => pcMain # "init"

\* A production dry run has notified its start and the body was invoked.
C9_Witness == prod /\ dry_run /\ outcome # "none" /\ Started = 1

SeasonSummaries(m) == SelectSeq(m, LAMBDA x : x.type = "season")

\* The last poll saw an id other than the last processed one, started less
\* than half a season before the poll's clock.
PollMatched(poll) ==
    /\ poll.id # poll.known
    /\ poll.timestamp > poll.now - (SEASON_DURATION \div 2)

-----------------------------------------------------------------------------
(* Properties of the transaction monitors *)

\* _handle_txn_logs of monitor k was called with a transaction of this method
\* class, and no external call of it failed.
HandledTxn(k, method) ==
    /\ kind = k
    /\ group.method = method
    /\ handled \in {"returned", "raised"}

\* C11: the protocol monitor pushes, for every transaction whose method matches
\* a silo-conversion signature, exactly one SiloConversion notification and no
\* per-log notification, whatever logs the transaction has.
C11_OneSiloConversionNotification ==
    HandledTxn("beanstalk", "silo_conversion")
        => /\ Len(pushed) = 1
           /\ pushed[1].type = "SiloConversion"

BeanDeposits(event_logs) == {i \in DOMAIN event_logs : event_logs[i].event = "BeanDeposit"}

\* The BeanDeposit log at the highest log position.
HighestBeanDeposit(event_logs) ==
    event_logs[CHOOSE i \in BeanDeposits(event_logs) :
                  \A j \in BeanDeposits(event_logs) : event_logs[j].logIndex <= event_logs[i].logIndex]

\* C12: of the N >= 1 BeanDeposit logs of a transaction the protocol monitor
\* keeps exactly one as last_bean_deposit, the one at the highest log position;
\* the log list it renders holds no other BeanDeposit log, and no string is
\* rendered for any of the other N - 1.
C12_HighestDepositIsRepresentative ==
    (kind = "beanstalk" /\ handled # "none" /\ BeanDeposits(group.logs) # {})
        => /\ LastBeanDeposit(group.logs, NoneLog) = HighestBeanDeposit(group.logs)
           /\ BeanDeposits(Pruned(group.logs)) = {}
           /\ \A i \in DOMAIN rendered :
                 rendered[i].type = "BeanDeposit"
                     => rendered[i].id = HighestBeanDeposit(group.logs).logIndex
           /\ Cardinality({i \in DOMAIN rendered : rendered[i].type = "BeanDeposit"}) <= 1

\* A bean-deposit transaction with two BeanDeposit logs and another log was
\* handled, and the later deposit was rendered.
C12_Witness ==
    /\ HandledTxn("beanstalk", "bean_deposit")
    /\ Cardinality(BeanDeposits(group.logs)) = 2
    /\ Len(group.logs) = 3
    /\ \E i \in DOMAIN rendered :
          /\ rendered[i].type = "BeanDeposit"
          /\ rendered[i].id = HighestBeanDeposit(group.logs).logIndex
          /\ rendered[i].id > 1

\* C13: the pool monitor pushes nothing for a transaction whose method matches
\* a silo-conversion signature, whatever logs the transaction has.
C13_PoolSkipsSiloConversion ==
    (kind = "pool" /\ handled # "none" /\ group.method = "silo_conversion")
        => /\ pushed = <<>>
           /\ rendered = <<>>

\* The pool monitor was handed a silo conversion whose logs it would have
\* rendered under any other method, and pushed nothing.
C13_Witness ==
    /\ HandledTxn("pool", "silo_conversion")
    /\ \E i \in DOMAIN group.logs : default_pool_event_str(group.logs[i]) # EmptyStr
    /\ pushed = <<>>
    /\ handled = "returned"

\* C14: every text handed to message_function, by the pool monitor and by the
\* protocol monitor, is non-empty: a log that renders as '' is not pushed.
C14_NoEmptyTextPushed ==
    \A i \in DOMAIN msgs : msgs[i].type # ""

\* The non-empty texts of a sequence of texts.
Texts(strs) == SelectSeq(strs, LAMBDA event_str : event_str.parts # <<>>)

\* C15: the notifications of one transaction come in increasing log-position
\* order, also when the representative deposit log was re-attached.
C15_LogPositionOrder ==
    handled \in {"returned", "raised"}
        => \A i, j \in DOMAIN Texts(pushed) :
              i < j => Texts(pushed)[i].id < Texts(pushed)[j].id

\* C17: every non-empty string a classifier rendered ends with the link keyed
\* by the transaction hash followed by the marker '\n_ _'.
C17_EndsWithLinkAndMarker ==
    \A i \in DOMAIN rendered :
        rendered[i] # EmptyStr
            => /\ Len(rendered[i].parts) >= 2
               /\ SubSeq(rendered[i].parts, Len(rendered[i].parts) - 1, Len(rendered[i].parts))
                     = LinkAndMarker


\* C16: once stop() has cleared _thread_active, the background loop of every
\* monitor ends: no wait of the wrapper or of a body holds it for ever.
C16_StoppedLoopTerminates ==
    (pcMain \in {"joining", "stopped"}) ~> (pc = "done")

\* A monitor was stopped, stop()'s join had to wait for the thread, and the
\* thread has ended.
C16_Witness ==
    /\ pcMain = "stopped"
    /\ pc = "done"
    /\ join_waited > 0


-----------------------------------------------------------------------------
(* Properties of the formatting utilities *)

Returned1(function) == call.function = function /\ result # NoResult

\* The multiples of unit nearest to value: one, or two when value is halfway.
Nearest(value, unit) ==
    {n \in {(value \div unit) * unit, ((value \div unit) + 1) * unit} :
        \A o \in {(value \div unit) * unit, ((value \div unit) + 1) * unit} :
            (IF n >= value THEN n - value ELSE value - n)
                <= (IF o >= value THEN o - value ELSE value - o)}

\* The tiering rule: negative gives nothing; else round to the nearest 1,000
\* and below 10,000 give one fish per thousand, at least one; else round that
\* to the nearest 10,000 and below 100,000 give one shark per ten thousand;
\* else round that to the nearest 100,000 and give one whale per hundred
\* thousand.
TieringRule(value, emojis) ==
    IF value < 0 THEN emojis = NoEmojis
    ELSE \E thousands \in Nearest(value, 1000) :
            IF thousands < 10000
            THEN /\ emojis.symbol = "fish"
                 /\ emojis.count = (IF thousands = 0 THEN 1 ELSE thousands \div 1000)
            ELSE \E tens \in Nearest(thousands, 10000) :
                    IF tens < 100000
                    THEN emojis = Emojis("shark", tens \div 10000)
                    ELSE \E hundreds \in Nearest(tens, 100000) :
                            emojis = Emojis("whale", hundreds \div 100000)

\* C18: value_to_emojis gives, on every integer of the range, what the tiering
\* rule gives.
C18_FollowsTieringRule ==
    Returned1("value_to_emojis") => TieringRule(call.value, result[1])

\* The rule was followed on a value halfway between two thousands that falls
\* in the second tier, and on one in the third tier.
C18_Witness ==
    /\ Returned1("value_to_emojis")
    /\ \/ call.value = 9500 /\ result[1] = Emojis("shark", 1)
       \/ call.value = 250000 /\ result[1].symbol = "whale"

\* What a string of emojis stands for: its count times the unit of its symbol.
Magnitude(emojis) ==
    emojis.count * (CASE emojis.symbol = "fish" -> 1000
                      [] emojis.symbol = "shark" -> 10000
                      [] emojis.symbol = "whale" -> 100000
                      [] OTHER -> 0)

\* C19: over the non-negative integers the magnitude value_to_emojis shows
\* never decreases as the value grows (stated for each value and its successor,
\* which gives it for every v <= w), and value_to_emojis on the magnitude
\* shown gives the same symbol and count again.
C19_MonotonicAndStable ==
    (Returned1("value_to_emojis") /\ call.value >= 0)
        => /\ Magnitude(result[1]) <= Magnitude(value_to_emojis(call.value + 1))
           /\ value_to_emojis(Magnitude(result[1])) = result[1]

\* The value is the last one of a tier: its successor shows the next symbol.
C19_Witness ==
    /\ Returned1("value_to_emojis")
    /\ call.value >= 0
    /\ result[1].symbol = "fish"
    /\ value_to_emojis(call.value + 1).symbol = "shark"


\* The float the expression lp * pooled / total_lp evaluates to, as Python
\* reads it: (lp * pooled) / total_lp.
AsWritten(lp, pooled, total_lp) == Div(Mul(FromInt(lp), FromInt(pooled)), FromInt(total_lp))

\* The float x is num / den but for the rounding of one division and one
\* multiplication: within 3 * 2^-Precision of it, relatively.
Roughly(x, num, den) ==
    LET scaled == IF x.e >= 0 THEN x.m * Pow(2, x.e) * den ELSE x.m * den
        exact == IF x.e >= 0 THEN num ELSE num * Pow(2, 0 - x.e)
    IN  (IF scaled >= exact THEN scaled - exact ELSE exact - scaled) * Pow(2, Precision)
            <= 3 * exact

\* 2 * x
Twice(x) == Float(x.m, x.e + 1)

\* lp_eq_values on twice the LP amount of the call, the pool figures the same.
ForTwiceLp ==
    lp_eq_values(FromInt(2 * call.lp), FromInt(call.total_lp),
                 FromInt(call.pooled_eth), FromInt(call.pooled_beans))

LpCallReturned == Returned1("lp_eq_values") /\ call.lp <= MaxAmount

\* C20: with positive pool figures, each amount lp_eq_values returns for
\* 2 * lp is exactly twice the one it returns for lp, and each equals
\* lp * pooled_i / total_lp.
C20_ProportionalAndExact ==
    LpCallReturned
        => /\ ForTwiceLp[1] = Twice(result[1][1])
           /\ ForTwiceLp[2] = Twice(result[1][2])
           /\ result[1][1] = AsWritten(call.lp, call.pooled_eth, call.total_lp)
           /\ result[1][2] = AsWritten(call.lp, call.pooled_beans, call.total_lp)

\* C20, amended: each amount for 2 * lp is exactly twice the one for lp, and
\* each is lp * pooled_i / total_lp up to the rounding of the float division
\* and multiplication that compute it.
C20_ProportionalUpToRounding ==
    LpCallReturned
        => /\ ForTwiceLp[1] = Twice(result[1][1])
           /\ ForTwiceLp[2] = Twice(result[1][2])
           /\ Roughly(result[1][1], call.lp * call.pooled_eth, call.total_lp)
           /\ Roughly(result[1][2], call.lp * call.pooled_beans, call.total_lp)

\* An ETH amount that is not the float lp * pooled_eth / total_lp evaluates to
\* was returned, with a Bean amount that is.
C20_Witness ==
    /\ LpCallReturned
    /\ result[1][1] # AsWritten(call.lp, call.pooled_eth, call.total_lp)
    /\ result[1][2] = AsWritten(call.lp, call.pooled_beans, call.total_lp)
    /\ result[1][1] # result[1][2]


\* A check of the peg-cross detector that went through its first query with the
\* cursor initialized, and came back without a second query.
CheckedInitialized ==
    /\ pc = "peg_loop"
    /\ pc' = "peg_render"
    /\ last_known_cross # None

\* C23: when the latest record fetched has a timestamp less than or equal to
\* the cursor's, the check returns NO_CROSS alone, which the loop does not
\* render: nothing is emitted, and last_known_cross is left as it was.
C23_NotNewerEmitsNothing ==
    [][/\ CheckedInitialized /\ last_cross'.timestamp <= last_known_cross.timestamp
           => /\ last_known_cross' = last_known_cross
              /\ cross_types' = <<NO_CROSS>>
              /\ detected' = detected
              /\ msgs' = msgs
       /\ (pc = "peg_render" /\ cross_types' # cross_types /\ Head(cross_types) = NO_CROSS)
           => msgs' = msgs]_vars

\* A record of a newer id but of the cursor's own timestamp was fetched, and
\* the check emitted nothing and kept the cursor.
C23_Witness ==
    /\ last_check.known # None
    /\ last_check.last_cross.id > last_check.known.id
    /\ last_check.last_cross.timestamp = last_check.known.timestamp
    /\ last_check.returned = 0
    /\ last_known_cross = last_check.known
    /\ pc = "peg_loop"

\* C26: once last_known_cross is initialized its timestamp never decreases,
\* and whenever it changes it becomes the record just fetched, whose timestamp
\* is strictly greater than the one it replaces.
C26_CursorOnlyAdvances ==
    [][last_known_cross # None
           => /\ last_known_cross'.timestamp >= last_known_cross.timestamp
              /\ last_known_cross' # last_known_cross
                     => /\ last_known_cross' = last_cross'
                        /\ last_known_cross'.timestamp > last_known_cross.timestamp]_vars

\* The initialized cursor was replaced by a record two ids ahead of it.
C26_Witness ==
    /\ last_check.known # None
    /\ last_known_cross = last_check.last_cross
    /\ last_known_cross.timestamp > last_check.known.timestamp
    /\ last_known_cross.id = last_check.known.id + 2


\* C27: once stop() has emitted 'monitoring stopped', the monitor emits nothing
\* more: that notification is the last one of msgs, also when the join timed
\* out with the body still in an external call.
C27_NothingAfterStopped ==
    \A i \in DOMAIN msgs : msgs[i].type = "stopped" => i = Len(msgs)


\* The summary of the season with this id is among the notifications.
SummaryPushed(id) == \E i \in DOMAIN msgs : msgs[i] = SeasonSummaryString(id)

\* C29: the cursor current_season_id is never left on a season whose summary
\* will not be emitted: the season it records has its summary in msgs, or the
\* body holds its stats and is about to publish them, also after the body has
\* failed and been invoked again.
C29_ProcessedSeasonIsReported ==
    current_season_id # 0
        => \/ SummaryPushed(current_season_id)
           \/ pc = "sun_report" /\ stats = current_season_id


\* C24: the instant _wait_until_expected_sunrise waits for is a multiple of
\* SEASON_DURATION, is not earlier than the current time, and is the smallest
\* such multiple: the multiple before it is earlier than the current time,
\* also when the current time is itself a multiple.
C24_NextBoundaryIsSmallest ==
    Returned1("_wait_until_expected_sunrise")
        => /\ result[1] % SEASON_DURATION = 0
           /\ result[1] >= call.now
           /\ result[1] - SEASON_DURATION < call.now


\* The event kinds a classifier has a text for.
Recognized(k) ==
    IF k = "pool" THEN {"Mint", "Burn", "Swap"}
    ELSE {"LPDeposit", "LPWithdraw", "LPClaim", "BeanDeposit", "BeanWithdraw", "BeanClaim",
          "Sow", "SiloConversion"}

\* C25: a classifier returns the empty string for an event whose kind is not
\* one of those it recognizes: every non-empty string rendered, by the pool
\* monitor and by the protocol monitor, is the string of a recognized kind.
C25_UnrecognizedIsSuppressed ==
    \A i \in DOMAIN rendered :
        rendered[i] # EmptyStr => rendered[i].type \in Recognized(kind)

\* C28: the for loop over a batch goes from each transaction to the next one:
\* while a later transaction is left, a step of the loop takes the first
\* transaction off the batch and nothing else, also when handling it raises.
C28_BatchHandledToItsEnd ==
    [][(pc = "txn_for" /\ Len(batch) > 1 /\ batch' # batch) => batch' = Tail(batch)]_vars


\* C30: the drain sends the entries in the order they were appended: of two
\* entries sent, the one sent first is not the one appended later, under any
\* interleaving of the appends with the drain.
C30_SentInAppendOrder ==
    \A i, j \in DOMAIN sent : i < j => sent[i].text <= sent[j].text


-----------------------------------------------------------------------------
(* Properties of the supervised poller's timing *)

\* C22: the body is invoked only when at least MONITOR_RESET_DELAY has passed
\* since its last invocation ended, after a failure as after a return; and
\* while the monitor is not stopped the loop has not ended, however the
\* invocations on record ended: three failures and a success among them.
C22_ResetDelayBetweenInvocations ==
    /\ [][(pc = "w_check" /\ pc' = "body") => idle >= Ticks(MONITOR_RESET_DELAY)]_vars
    /\ [](thread_active => pc # "done")

\* The body failed three times and then returned, the reset delay has passed
\* since, and it is running for the fifth time.
C22_Witness ==
    /\ history = <<"raised", "raised", "raised", "returned">>
    /\ idle = Ticks(MONITOR_RESET_DELAY)
    /\ pc = "body"
    /\ thread_active


\* C21: with no graph client and any of total_lp, pooled_eth, pooled_beans
\* left out, lp_eq_values raises ValueError and returns no amounts; raised in a
\* monitor body, the failure takes the wrapper back to its while test, and the
\* loop has not ended while the monitor is not stopped.
C21_MissingFigureRaisesAndLoopGoesOn ==
    /\ [][(pc = "body" /\ pc' # "body" /\ call.missing # {})
              => /\ result' = <<ValueError>>
                 /\ outcome' = "raised"
                 /\ pc' = "w_check"]_vars
    /\ []((outcome = "raised" /\ thread_active) => pc # "done")

\* The call with pooled_beans alone left out raised, and the body has been
\* invoked again.
C21_Witness ==
    /\ call.missing = {"pooled_beans"}
    /\ result = <<ValueError>>
    /\ outcome = "retrying"
    /\ pc = "body"

=============================================================================
